---- MODULE Spec2Model ----
(***************************************************************************)
(* Model of simulateLCA (src/LCA4/src/lcaC.c): the batch driver over       *)
(* trials, the do-while race loop of one trial, and the output arrays.     *)
(*                                                                         *)
(* Doubles are modelled on the sub-domain of small integers, on which      *)
(* IEEE addition, subtraction and multiplication are exact; dt is drawn    *)
(* from even values so that dt/2 is exact too.  The noise term             *)
(* rhs times norm_rand() is an arbitrary real when rhs # 0 and is 0 when   *)
(* rhs = 0; it is drawn from a positive and a negative integer.            *)
(***************************************************************************)
EXTENDS Integers, FiniteSets, Sequences, TLC

\* ---- bounds of the model ------------------------------------------------
MaxAcc == 2
MaxIter == 2
MaxNoise == 1

\* ---- input domains ------------------------------------------------------
Inputs == {-1, 1}
Starts == {-1, 1}
Rates == {0, 1}
Thresholds == {0, 2}
StepSizes == {2}
NoiseSDs == {0, 1}
Flags == {0, 1}
TrialCounts == {0, 1, 2}

Acc(n) == 0 .. (n - 1)
\* slots of resp and rt: those of the largest batch and one beyond
Slots == 0 .. 2

VARIABLES
  \* arguments of simulateLCA (read-only during the call)
  nAcc, I, kappa, beta, Z, s, dt, maxiter, nTrials, nonLinear, x0,
  \* output arrays (caller-owned)
  resp, rt,
  \* locals
  rhs, sum, iter, i, winner, x, dummy, z, pc,
  \* history (not program state): writes per output slot, the activation
  \* vector at the start of the current step, the noise terms of the current
  \* step, the vector right after the update of the current step, whether a
  \* post-update activation of the current trial has reached the threshold,
  \* the update steps of the current trial, and per finished trial the number
  \* of steps it executed, whether any activation reached the threshold, and
  \* how many activations were at or above it after the last update
  respWrites, rtWrites, xPre, noise, xUpd, crossed, steps, stepsOf, crossedOf,
  crossingsOf

config == <<nAcc, I, kappa, beta, Z, s, dt, maxiter, nTrials, nonLinear, x0>>
hist == <<respWrites, rtWrites, xPre, noise, xUpd, crossed, steps, stepsOf, crossedOf, crossingsOf>>
vars == <<config, resp, rt, rhs, sum, iter, i, winner, x, dummy, z, pc, hist>>

Zeros(n) == [a \in Acc(n) |-> 0]

\* rhs = sqrt(dt*s*s): only whether it is zero matters for the noise term
NoiseFactor(d, sd) == IF d * sd * sd = 0 THEN 0 ELSE 1

\* the values rhs*norm_rand() can take: 0 when rhs = 0, else a draw of either
\* sign
NoiseTerms(r) == IF r = 0 THEN {0} ELSE {-MaxNoise, MaxNoise}

Init ==
  /\ nAcc \in 1 .. MaxAcc
  /\ I \in [Acc(nAcc) -> Inputs]
  /\ x0 \in [Acc(nAcc) -> Starts]
  /\ kappa \in Rates
  /\ beta \in Rates
  /\ Z \in Thresholds
  /\ s \in NoiseSDs
  /\ dt \in StepSizes
  /\ maxiter \in 0 .. MaxIter
  /\ nTrials \in TrialCounts
  /\ nonLinear \in Flags
  /\ resp = [k \in Slots |-> 0]
  /\ rt = [k \in Slots |-> 0]
  /\ rhs = NoiseFactor(dt, s)
  /\ sum = 0
  /\ iter = 0
  /\ i = 0
  /\ winner = FALSE
  /\ x = Zeros(nAcc)
  /\ dummy = Zeros(nAcc)
  /\ z = 0
  /\ pc = "for"
  /\ respWrites = [k \in Slots |-> 0]
  /\ rtWrites = [k \in Slots |-> 0]
  /\ xPre = Zeros(nAcc)
  /\ noise = Zeros(nAcc)
  /\ xUpd = Zeros(nAcc)
  /\ crossed = FALSE
  /\ steps = 0
  /\ stepsOf = [k \in Slots |-> 0]
  /\ crossedOf = [k \in Slots |-> FALSE]
  /\ crossingsOf = [k \in Slots |-> 0]

\* lines 57-61: x and dummy start from the start point
StartPoint(n, start) == [a \in Acc(n) |-> start[a]]

\* line 95: the threshold test
CrossesStrict(v, thr) == v > thr

Crosses(v, thr) == v >= thr

\* TrialInit without the pre-set of resp[i] (line 53 dropped)
TrialInitNoPreset ==
  /\ pc = "for"
  /\ i < nTrials
  /\ winner' = FALSE
  /\ iter' = 0
  /\ x' = StartPoint(nAcc, x0)
  /\ dummy' = StartPoint(nAcc, x0)
  /\ pc' = "do"
  /\ crossed' = FALSE
  /\ steps' = 0
  /\ UNCHANGED <<config, resp, rt, rhs, sum, i, z, respWrites, rtWrites, xPre, noise, xUpd, stepsOf, crossedOf, crossingsOf>>

\* TrialInit without the reset of winner (line 51 dropped)
TrialInitKeepWinner ==
  /\ pc = "for"
  /\ i < nTrials
  /\ iter' = 0
  /\ resp' = [resp EXCEPT ![i] = -1]
  /\ x' = StartPoint(nAcc, x0)
  /\ dummy' = StartPoint(nAcc, x0)
  /\ pc' = "do"
  /\ respWrites' = [respWrites EXCEPT ![i] = @ + 1]
  /\ crossed' = FALSE
  /\ steps' = 0
  /\ UNCHANGED <<config, rt, rhs, sum, i, winner, z, rtWrites, xPre, noise, xUpd, stepsOf, crossedOf, crossingsOf>>

\* TrialInit of a while loop: the threshold is tested on the start point
\* and the loop body is skipped when it is reached
TrialInitTestStart ==
  /\ pc = "for"
  /\ i < nTrials
  /\ iter' = 0
  /\ x' = StartPoint(nAcc, x0)
  /\ dummy' = StartPoint(nAcc, x0)
  /\ IF \E a \in Acc(nAcc) : Crosses(x0[a], Z)
       THEN /\ winner' = TRUE
            /\ resp' = [resp EXCEPT ![i] =
                          1 + CHOOSE a \in Acc(nAcc) :
                                /\ Crosses(x0[a], Z)
                                /\ \A b \in Acc(nAcc) : Crosses(x0[b], Z) => b <= a]
            /\ pc' = "rt"
       ELSE /\ winner' = FALSE
            /\ resp' = [resp EXCEPT ![i] = -1]
            /\ pc' = "do"
  /\ respWrites' = [respWrites EXCEPT ![i] = @ + 1]
  /\ crossed' = FALSE
  /\ steps' = 0
  /\ UNCHANGED <<config, rt, rhs, sum, i, z, rtWrites, xPre, noise, xUpd, stepsOf, crossedOf, crossingsOf>>

\* lines 50-67: loop test of the for loop and the initialisation of a trial
TrialInit ==
  /\ pc = "for"
  /\ i < nTrials
  /\ winner' = FALSE
  /\ iter' = 0
  /\ resp' = [resp EXCEPT ![i] = -1]
  /\ x' = StartPoint(nAcc, x0)
  /\ dummy' = StartPoint(nAcc, x0)
  /\ pc' = "do"
  /\ respWrites' = [respWrites EXCEPT ![i] = @ + 1]
  /\ crossed' = FALSE
  /\ steps' = 0
  /\ UNCHANGED <<config, rt, rhs, sum, i, z, rtWrites, xPre, noise, xUpd, stepsOf, crossedOf, crossingsOf>>

\* lines 73-76: each accumulator's contribution to the inhibition
Inhibition(n, xs, d, b) == [a \in Acc(n) |-> (xs[a] * d) * b]

\* lines 79-83: sum = dummy[0] + ... + dummy[a-1]
RECURSIVE SumTo(_, _)
SumTo(dm, a) == IF a = 0 THEN 0 ELSE SumTo(dm, a - 1) + dm[a - 1]

\* the LCA equations computed in place: accumulator a reads the inhibition of
\* the accumulators below it from their already updated values
RECURSIVE InPlace(_, _, _, _, _, _, _)
InPlace(n, xs, inp, k, d, nz, a) ==
  IF a = n THEN xs
  ELSE LET dm == [c \in Acc(n) |-> (xs[c] * d) * beta]
           RECURSIVE Tot(_)
           Tot(c) == IF c = 0 THEN 0 ELSE Tot(c - 1) + dm[c - 1]
           v == xs[a] + d * inp[a] - (k * xs[a]) * d - Tot(n) + dm[a] + nz[a]
       IN InPlace(n, [xs EXCEPT ![a] = v], inp, k, d, nz, a + 1)

LCAUpdateInPlace(n, xs, inp, k, d, sm, dm, nz) == InPlace(n, xs, inp, k, d, nz, 0)

\* lines 86-88: the LCA equations
LCAUpdate(n, xs, inp, k, d, sm, dm, nz) ==
  [a \in Acc(n) |-> xs[a] + d * inp[a] - (k * xs[a]) * d - sm + dm[a] + nz[a]]

\* lines 72-91: one update step and the increment of the step counter
Update ==
  /\ pc = "do"
  /\ \E nz \in [Acc(nAcc) -> NoiseTerms(rhs)] :
       /\ dummy' = Inhibition(nAcc, x, dt, beta)
       /\ sum' = SumTo(dummy', nAcc)
       /\ x' = LCAUpdate(nAcc, x, I, kappa, dt, sum', dummy', nz)
       /\ noise' = nz
  /\ iter' = iter + 1
  /\ z' = 0
  /\ pc' = "check"
  /\ xPre' = x
  /\ xUpd' = x'
  /\ steps' = steps + 1
  /\ crossed' = (crossed \/ \E a \in Acc(nAcc) : x'[a] >= Z)
  /\ UNCHANGED <<config, resp, rt, rhs, i, winner, respWrites, rtWrites, stepsOf, crossedOf, crossingsOf>>

ClampNone(nl, v) == v

\* lines 101-105: the non-linearity resets a negative activation to 0
Clamp(nl, v) == IF nl = 1 /\ v < 0 THEN 0 ELSE v

\* Check where the first crossing found in a step keeps the response
CheckFirstWins ==
  /\ pc = "check"
  /\ z < nAcc
  /\ IF Crosses(x[z], Z) /\ winner = FALSE
       THEN /\ resp' = [resp EXCEPT ![i] = z + 1]
            /\ winner' = TRUE
            /\ respWrites' = [respWrites EXCEPT ![i] = @ + 1]
       ELSE UNCHANGED <<resp, winner, respWrites>>
  /\ x' = [x EXCEPT ![z] = Clamp(nonLinear, @)]
  /\ z' = z + 1
  /\ UNCHANGED <<config, rt, rhs, sum, iter, i, dummy, pc, rtWrites, xPre, noise, xUpd, crossed, steps, stepsOf, crossedOf, crossingsOf>>

\* lines 94-106: one iteration of the threshold/clamp loop
Check ==
  /\ pc = "check"
  /\ z < nAcc
  /\ IF Crosses(x[z], Z)
       THEN /\ resp' = [resp EXCEPT ![i] = z + 1]
            /\ winner' = TRUE
            /\ respWrites' = [respWrites EXCEPT ![i] = @ + 1]
       ELSE UNCHANGED <<resp, winner, respWrites>>
  /\ x' = [x EXCEPT ![z] = Clamp(nonLinear, @)]
  /\ z' = z + 1
  /\ UNCHANGED <<config, rt, rhs, sum, iter, i, dummy, pc, rtWrites, xPre, noise, xUpd, crossed, steps, stepsOf, crossedOf, crossingsOf>>

ContinueOneMore(it, mx, w) == it <= mx /\ w = FALSE

ContinueIgnoreWinner(it, mx, w) == it < mx

\* line 107: the loop condition of the do-while
Continue(it, mx, w) == it < mx /\ w = FALSE

While ==
  /\ pc = "check"
  /\ z >= nAcc
  /\ pc' = IF Continue(iter, maxiter, winner) THEN "do" ELSE "rt"
  /\ UNCHANGED <<config, resp, rt, rhs, sum, iter, i, winner, x, dummy, z, hist>>

ReactionTimeStepEnd(it, d) == it * d

\* line 110: the reaction time of a trial that took it steps
ReactionTime(it, d) == it * d - d \div 2

\* lines 110-112 and the i++ of line 50; x and dummy go out of scope
WriteRT ==
  /\ pc = "rt"
  /\ rt' = [rt EXCEPT ![i] = ReactionTime(iter, dt)]
  /\ rtWrites' = [rtWrites EXCEPT ![i] = @ + 1]
  /\ stepsOf' = [stepsOf EXCEPT ![i] = steps]
  /\ crossedOf' = [crossedOf EXCEPT ![i] = crossed]
  /\ crossingsOf' = [crossingsOf EXCEPT ![i] = Cardinality({a \in Acc(nAcc) : xUpd[a] >= Z})]
  /\ i' = i + 1
  /\ x' = Zeros(nAcc)
  /\ dummy' = Zeros(nAcc)
  /\ xPre' = Zeros(nAcc)
  /\ xUpd' = Zeros(nAcc)
  /\ noise' = Zeros(nAcc)
  /\ pc' = "for"
  /\ UNCHANGED <<config, resp, rhs, sum, iter, winner, z, respWrites, crossed, steps>>

\* lines 50, 113: the for loop ends and the function returns
Return ==
  /\ pc = "for"
  /\ i >= nTrials
  /\ pc' = "done"
  /\ UNCHANGED <<config, resp, rt, rhs, sum, iter, i, winner, x, dummy, z, hist>>

Next == TrialInit \/ Update \/ Check \/ While \/ WriteRT \/ Return

Spec == Init /\ [][Next]_vars

FairSpec == Init /\ [][Next]_vars /\ WF_vars(Next)

\* ---- properties -----------------------------------------------------------

\* trials whose reaction time has been written
Finished == 0 .. (i - 1)

\* twice the time-out value maxIter*dt - dt/2
TimeOut2 == 2 * maxiter * dt - dt

\* accumulators whose activation after the update of the current step is at
\* or above the threshold
Crossers == {a \in Acc(nAcc) : xUpd[a] >= Z}

\* sum of v over the accumulators of set S
RECURSIVE SumOver(_, _)
SumOver(v, S) ==
  IF S = {} THEN 0
  ELSE LET a == CHOOSE b \in S : TRUE IN v[a] + SumOver(v, S \ {a})

\* C1 as stated: for maxIter >= 1, a finished trial has response -1 if and
\* only if its reaction time is the time-out value maxIter*dt - dt/2.
C1_SentinelIff ==
  maxiter >= 1 =>
    \A k \in Finished : (resp[k] = -1) <=> (2 * rt[k] = TimeOut2)

\* C1 amended: for maxIter >= 1, a finished trial with response -1 has the
\* time-out reaction time; a finished trial with the time-out reaction time
\* and a response other than -1 executed exactly maxIter steps and had an
\* accumulator at or above the threshold (it crossed on the last step).
C1_SentinelImplies ==
  maxiter >= 1 =>
    \A k \in Finished :
      /\ resp[k] = -1 => 2 * rt[k] = TimeOut2
      /\ (2 * rt[k] = TimeOut2 /\ resp[k] # -1) =>
           (stepsOf[k] = maxiter /\ crossedOf[k] /\ resp[k] \in 1 .. nAcc)

C1_Witness ==
  /\ maxiter >= 1
  /\ \E k \in Finished, l \in Finished :
       /\ resp[k] = -1
       /\ 2 * rt[k] = TimeOut2
       /\ resp[l] # -1
       /\ 2 * rt[l] = TimeOut2

\* C2 as stated: for maxIter >= 1, no output slot is ever written more than once, every slot
\* below nTrials has been written exactly once at return, and no slot at or
\* above nTrials is written.
C2_WriteOnce ==
  maxiter >= 1 => \A k \in Slots :
    /\ respWrites[k] <= 1
    /\ rtWrites[k] <= 1
    /\ (pc = "done" /\ k < nTrials) => (respWrites[k] = 1 /\ rtWrites[k] = 1)
    /\ k >= nTrials => (respWrites[k] = 0 /\ rtWrites[k] = 0)

\* C2 amended: rt[k] is written exactly once, when trial k ends; resp[k] is
\* written once by the pre-set to -1 and once more for every accumulator
\* found at or above the threshold in the trial's last step (1 to 1 + nAcc
\* times), all of them during trial k; the slots of a finished trial are not
\* written again; slots of trials not yet started and slots at or above
\* nTrials are never written.
C2_WritesPerTrial ==
  \A k \in Slots :
    /\ k \in Finished =>
         /\ rtWrites[k] = 1
         /\ respWrites[k] = 1 + crossingsOf[k]
         /\ respWrites[k] \in 1 .. (1 + nAcc)
    /\ (k = i /\ pc \in {"do", "check", "rt"}) =>
         (rtWrites[k] = 0 /\ respWrites[k] \in 1 .. (1 + nAcc))
    /\ (k > i \/ k >= nTrials \/ (k = i /\ pc = "for")) =>
         (rtWrites[k] = 0 /\ respWrites[k] = 0)
    /\ (pc = "done" /\ k < nTrials) => k \in Finished

C2_Witness ==
  /\ pc = "done"
  /\ \E k \in Finished : respWrites[k] = 1 + nAcc /\ nAcc >= 2
  /\ \E k \in Finished : respWrites[k] = 1

\* C3: for maxIter >= 1, every finished trial has a response in 1..nAcc or -1
\* and a written reaction time and response; the response is -1 exactly when
\* no post-update activation of the trial reached the threshold; at return
\* all nTrials trials are finished.
C3_ResponseRange ==
  maxiter >= 1 =>
    /\ \A k \in Finished :
         /\ resp[k] \in (1 .. nAcc) \cup {-1}
         /\ respWrites[k] >= 1
         /\ rtWrites[k] >= 1
         /\ (resp[k] = -1) <=> ~crossedOf[k]
    /\ pc = "done" => Finished = 0 .. (nTrials - 1)

C3_Witness ==
  /\ maxiter >= 1
  /\ pc = "done"
  /\ \E k \in Finished : resp[k] = -1 /\ ~crossedOf[k]
  /\ \E k \in Finished : resp[k] \in 1 .. nAcc /\ crossedOf[k]

\* C4: once the threshold loop of a step has finished with a winner, the
\* response is the highest 1-based index among the accumulators whose
\* activation after that step's update is at or above the threshold.
C4_TieBreak ==
  (winner /\ (pc = "rt" \/ (pc = "check" /\ z >= nAcc))) =>
    /\ Crossers # {}
    /\ resp[i] - 1 \in Crossers
    /\ \A a \in Crossers : a + 1 <= resp[i]

C4_Witness ==
  /\ pc = "rt"
  /\ winner
  /\ \E a \in Crossers, b \in Crossers :
       a < b /\ xUpd[a] > xUpd[b] /\ resp[i] = b + 1

\* C5 as stated: for maxIter >= 1, with nonLinear set and s = 0, no activation of a running
\* trial is below 0 in any state, from the initialisation on.
C5_NeverNegative ==
  (maxiter >= 1 /\ nonLinear = 1 /\ s = 0 /\ pc \in {"do", "check", "rt"}) =>
    \A a \in Acc(nAcc) : x[a] >= 0

\* C5 amended: with nonLinear set and s = 0, every activation is at or above
\* 0 at the end of each step, that is once the threshold loop has passed it;
\* the start point and the activations between the update and the clamp may
\* be below 0.
C5_ClampedAfterStep ==
  (nonLinear = 1 /\ s = 0) =>
    /\ pc = "check" => \A a \in Acc(nAcc) : a < z => x[a] >= 0
    /\ (pc = "rt" \/ (pc = "do" /\ steps >= 1)) =>
         \A a \in Acc(nAcc) : x[a] >= 0

C5_Witness ==
  /\ nonLinear = 1
  /\ s = 0
  /\ pc = "do"
  /\ steps >= 1
  /\ \E a \in Acc(nAcc) : xUpd[a] < 0 /\ x[a] = 0

\* C6: for maxIter >= 1, the reaction time of a finished trial is
\* steps*dt - dt/2, with steps the number of update steps the trial executed,
\* and lies between 0 and maxIter*dt.
C6_ReactionTimeBounds ==
  maxiter >= 1 =>
    \A k \in Finished :
      /\ 2 * rt[k] = 2 * stepsOf[k] * dt - dt
      /\ 0 <= rt[k]
      /\ rt[k] <= maxiter * dt

C6_Witness ==
  /\ maxiter >= 2
  /\ \E k \in Finished : stepsOf[k] = maxiter /\ resp[k] = -1
  /\ \E k \in Finished : stepsOf[k] < maxiter /\ resp[k] # -1

C8_LateralInhibition ==
  /\ pc = "check" =>
       \A a \in Acc(nAcc) :
         xUpd[a] = xPre[a] + dt * I[a] - dt * kappa * xPre[a]
                   - dt * beta * SumOver(xPre, Acc(nAcc) \ {a}) + noise[a]
  /\ (pc = "do" /\ steps >= 1) =>
       \A a \in Acc(nAcc) :
         x[a] = IF nonLinear = 1 /\ xUpd[a] < 0 THEN 0 ELSE xUpd[a]

C8_Witness ==
  /\ pc = "check"
  /\ nAcc >= 2
  /\ beta # 0
  /\ steps >= 2
  /\ xPre[0] # 0
  /\ xPre[1] # 0
  /\ xPre[0] # xPre[1]
  /\ xUpd[1] # xPre[1]

\* C9: iter is 0 when a trial enters its loop and changes only by +1, in an
\* update step, or by the reset at the start of a trial; an update step is
\* taken only without a winner and, for maxIter >= 1, with iter < maxIter, so
\* iter never exceeds maxIter; the loop is left as soon as a step ends with a
\* winner or with iter = maxIter; and the call eventually returns with all
\* nTrials trials finished.
C9_Termination ==
  /\ [][/\ (iter' # iter) =>
             \/ (pc = "do" /\ pc' = "check" /\ iter' = iter + 1)
             \/ (pc = "for" /\ pc' = "do" /\ iter' = 0)
        /\ (pc = "do" /\ pc' = "check") =>
             /\ iter' = iter + 1
             /\ steps = iter
             /\ winner = FALSE
             /\ maxiter >= 1 => iter < maxiter
        /\ (pc = "check" /\ z >= nAcc /\ (winner \/ iter >= maxiter)) =>
             pc' = "rt"
        /\ (pc = "check" /\ pc' = "rt" /\ maxiter >= 1) =>
             (winner \/ iter = maxiter)]_vars
  /\ [](maxiter >= 1 => (iter <= maxiter /\ steps <= maxiter))
  /\ <>(pc = "done" /\ i = nTrials)

C9_Witness ==
  /\ pc = "done"
  /\ i = nTrials
  /\ nTrials >= 2
  /\ maxiter >= 2
  /\ stepsOf[0] = maxiter
  /\ stepsOf[1] < maxiter

\* C10: a threshold test is always preceded by an update step of the same
\* trial, whatever x0 and maxIter are: a trial enters its loop with no winner
\* and response -1 even when a start point is at or above the threshold,
\* every finished trial executed at least one step, and its reaction time
\* is at least dt/2.
C10_DoWhileEntry ==
  /\ pc = "check" => (steps >= 1 /\ iter >= 1)
  /\ (pc = "do" /\ steps = 0) => (winner = FALSE /\ resp[i] = -1)
  /\ pc = "rt" => steps >= 1
  /\ \A k \in Finished : stepsOf[k] >= 1 /\ 2 * rt[k] >= dt

C10_Witness ==
  /\ \E a \in Acc(nAcc) : x0[a] >= Z
  /\ \E k \in Finished : resp[k] = -1 /\ 2 * rt[k] = dt

====
